---- MODULE Spec2Model ----
(***************************************************************************)
(* Model of src/src/trans_matrix_getter.py: the TransMatrixGetter node.    *)
(*                                                                         *)
(* One control thread runs the poll loop of __init__ (lines 65-75) and the *)
(* pipeline of set_transform_matrix (lines 124-187).  rospy delivers       *)
(* CameraInfo messages on receive threads (one per publisher connection),  *)
(* each running info_callback (lines 77-86).  tf2 (can_transform and       *)
(* Buffer.transform) is the environment: its answers are drawn from small  *)
(* sets.  Coordinates are exact rationals, as sympy computes them; a point *)
(* <<X, Y, Z, W>> stands for (X/W, Y/W, Z/W) with W > 0.                   *)
(***************************************************************************)
EXTENDS Integers, Sequences, FiniteSets

\* ---------------------------------------------------------------- bounds

\* Number of receive threads that can run info_callback concurrently.
NumCallbacks == 2
\* Largest elevation (z) tf2 answers with.
MaxZ == 1
\* The consecutive-failure counter saturates here.
MaxFailures == 2

Threads == 1..NumCallbacks

\* ROS parameters ~distance_ahead and ~lane_width (lines 49-50).
DistanceAheadValues == {-1, 1}
LaneWidthValues == {3}

\* Python's None.
None == <<>>

\* The CameraInfo message receive thread t delivers.
CameraInfo(t) ==
    [id |-> t, width |-> 2 * t, height |-> 2, fx |-> 1, fy |-> 1, cx |-> t, cy |-> 1]

\* Positions Buffer.transform can answer with, in the base frame.
ZeroPoints == {<<0, 0, z>> : z \in 0..MaxZ}
RayPoints == {<<1, y, z>> : y \in {-1, 0, 1}, z \in 0..MaxZ}
\* Positions Buffer.transform can answer with, in the camera frame, for the far
\* left and the far right point.
LeftCameraPoints == {<<-1, -1, 2>>}
RightCameraPoints == {<<1, -1, 2>>, <<1, -1, 0>>}

\* ------------------------------------------------------------ geometry

\* A line-plane intersection that answers a parallel line with a default point.
LinePlaneDefaulted(a, b, pz) ==
    IF a[3] = b[3]
      THEN [kind |-> "point", p |-> <<b[1], b[2], pz, 1>>]
      ELSE LET d == b[3] - a[3]
               s == IF d > 0 THEN 1 ELSE -1
               n == pz - a[3]
           IN  [kind |-> "point",
                p |-> <<s * (a[1] * d + n * (b[1] - a[1])),
                        s * (a[2] * d + n * (b[2] - a[2])),
                        s * (a[3] * d + n * (b[3] - a[3])),
                        s * d>>]

\* sympy's Plane(z = pz).intersection(Line3D(a, b)): the line itself when it lies
\* in the plane, nothing when it is parallel to it, else the one common point.
LinePlane(a, b, pz) ==
    IF a[3] = b[3]
      THEN [kind |-> IF a[3] = pz THEN "line" ELSE "empty", p |-> None]
      ELSE LET d == b[3] - a[3]
               s == IF d > 0 THEN 1 ELSE -1
               n == pz - a[3]
           IN  [kind |-> "point",
                p |-> <<s * (a[1] * d + n * (b[1] - a[1])),
                        s * (a[2] * d + n * (b[2] - a[2])),
                        s * (a[3] * d + n * (b[3] - a[3])),
                        s * d>>]

\* Equality of two rational points.
SamePoint(p, q) ==
    /\ p[1] * q[4] = q[1] * p[4]
    /\ p[2] * q[4] = q[2] * p[4]
    /\ p[3] * q[4] = q[3] * p[4]

\* Point3D.distance, squared, as <<numerator, denominator>>.
Distance2(p, q) ==
    LET dx == p[1] * q[4] - q[1] * p[4]
        dy == p[2] * q[4] - q[2] * p[4]
        dz == p[3] * q[4] - q[3] * p[4]
    IN  <<dx * dx + dy * dy + dz * dz, (p[4] * q[4]) * (p[4] * q[4])>>

\* Point3D.translate(x): the other two offsets default to 0.
Translate(p, x) == <<p[1] + x * p[4], p[2], p[3], p[4]>>

\* The sign test with >= in place of >.
SignNonNegative(lbc) == IF lbc[2] >= 0 THEN 1 ELSE -1

\* Lines 238-241.
Sign(lbc) == IF lbc[2] > 0 THEN 1 ELSE -1

\* Lines 203-245.  The outcomes of getUpperPoints(zero, lbc, rbc) with
\* self.distance_ahead = D: "points" is the normal return; "raise" is an exception
\* that is none of tf2's (Line3D of two equal points, [0] of an empty
\* intersection, a distance sympy cannot take); "lines" is a return whose point3
\* is a Line3D, which sympy versions produce when a line lies in the plane.
getUpperPoints(zero, lbc, rbc, D) ==
    LET i1 == LinePlane(zero, lbc, lbc[3])
        i2 == LinePlane(zero, rbc, lbc[3])
        fail(k) == [kind |-> k, point3 |-> None, point4 |-> None, xs2 |-> None]
    IN  IF zero = lbc \/ zero = rbc
          THEN {fail("raise")}
        ELSE IF i1.kind = "empty" \/ i2.kind = "empty"
          THEN {fail("raise")}
        ELSE IF i1.kind = "line" \/ i2.kind = "line"
          THEN {fail("raise"), fail("lines")}
        ELSE {[kind |-> "points",
               point3 |-> Translate(i1.p, Sign(lbc) * D),
               point4 |-> Translate(i2.p, Sign(lbc) * D),
               xs2 |-> Distance2(i1.p, i2.p)]}

\* PinholeCameraModel.project3dToPixel, as the homogeneous pixel <<u*w, v*w, w>>.
project3dToPixel(model, p) ==
    <<model.fx * p[1] + model.cx * p[3], model.fy * p[2] + model.cy * p[3], p[3]>>

\* Lines 171-172: w/2*(1 -/+ x_scale/lane_width), x_scale kept as its square.
\* The widths of CameraInfo are even, so w/2 is the same in Python 2 and 3.
DstColumn(w, side, xs2, lane) == [half |-> w \div 2, side |-> side, xs2 |-> xs2, lane |-> lane]

\* l_w = r_w as real numbers.
SameColumn(l, r) == l.half = 0 \/ (l.xs2[1] = 0 /\ r.xs2[1] = 0)

\* Lines 189-201: cv2.getPerspectiveTransform(src, dst), kept as the solve of
\* its two point lists; it raises for no input.
get_transform_matrix(src, dst) == [src |-> src, dst |-> dst]

\* The geometry of one attempt has no parallel line and two distinct near points.
NonDegenerate(zero, lbc, rbc) ==
    /\ lbc[3] # zero[3]
    /\ rbc[3] # zero[3]
    /\ Distance2(LinePlane(zero, lbc, lbc[3]).p, LinePlane(zero, rbc, lbc[3]).p)[1] # 0

VARIABLES
    cameraInfoSet,    \* self.cameraInfoSet
    camera_model,     \* self.camera_model: None while empty, else the loaded message
    loads,            \* number of completed fromCameraInfo calls
    cbpc,             \* position of each receive thread inside info_callback
    matrixSet,        \* self.matrixSet
    transformMatrix,  \* self.transformMatrix
    inverseMatrix,    \* self.inverseMatrix
    x_scale,          \* self.x_scale
    y_scale,          \* self.y_scale
    published,        \* messages handed to matrix_pub.publish, in order
    distance_ahead,   \* self.distance_ahead
    lane_width,       \* self.lane_width
    pc,               \* position of the control thread
    loc,              \* locals of set_transform_matrix
    tfGood,           \* tf2 currently answers every call with usable geometry
    lastIter,         \* how the previous loop iteration ended
    attempts,         \* set_transform_matrix calls made in the current iteration
    failures          \* consecutive attempts ended by a tf2 exception (saturating)

vars == <<cameraInfoSet, camera_model, loads, cbpc, matrixSet, transformMatrix,
          inverseMatrix, x_scale, y_scale, published, distance_ahead, lane_width,
          pc, loc, tfGood, lastIter, attempts, failures>>

selfVars == <<matrixSet, transformMatrix, inverseMatrix, x_scale, y_scale, published>>
cbVars == <<cameraInfoSet, camera_model, loads, cbpc>>
cfgVars == <<distance_ahead, lane_width>>
ghostVars == <<lastIter, attempts, failures>>

\* Locals not yet assigned: the sizes as 0, the points as None.
NoLocals == [w |-> 0, h |-> 0, zero |-> None, lbc |-> None, rbc |-> None,
             point3 |-> None, point4 |-> None, xs2 |-> None,
             luc_point |-> None, ruc_point |-> None]

\* State after the constructor's assignments (lines 29-63), before the loop.
Init ==
    /\ cameraInfoSet = FALSE
    /\ camera_model = None
    /\ loads = 0
    /\ cbpc = [t \in Threads |-> "idle"]
    /\ matrixSet = FALSE
    /\ transformMatrix = None
    /\ inverseMatrix = None
    /\ x_scale = None
    /\ y_scale = None
    /\ published = <<>>
    /\ distance_ahead \in DistanceAheadValues
    /\ lane_width \in LaneWidthValues
    /\ pc = "head"
    /\ loc = NoLocals
    /\ tfGood \in BOOLEAN
    /\ lastIter = "none"
    /\ attempts = 0
    /\ failures = 0

\* The process runs until the loop ends: __init__ returns to main, which returns
\* (lines 249-254), or an uncaught exception leaves it; the receive threads are
\* daemon threads and end with it.
Alive == pc \notin {"exit", "crashed"}

\* ------------------------------------------------------ info_callback

\* The guard of line 83 with the flag set before the model is loaded.
InfoCheckFlagFirst(t) ==
    /\ Alive
    /\ cbpc[t] = "idle"
    /\ IF ~cameraInfoSet
         THEN /\ cbpc' = [cbpc EXCEPT ![t] = "loading"]
              /\ cameraInfoSet' = TRUE
         ELSE UNCHANGED <<cbpc, cameraInfoSet>>
    /\ UNCHANGED <<camera_model, loads, selfVars, cfgVars, pc, loc,
                   tfGood, ghostVars>>

\* Line 83: the guard; a message that finds the flag set is dropped.
InfoCheck(t) ==
    /\ Alive
    /\ cbpc[t] = "idle"
    /\ IF ~cameraInfoSet
         THEN cbpc' = [cbpc EXCEPT ![t] = "loading"]
         ELSE cbpc' = cbpc
    /\ UNCHANGED <<cameraInfoSet, camera_model, loads, selfVars, cfgVars, pc, loc,
                   tfGood, ghostVars>>

\* Line 85: camera_model.fromCameraInfo(msg) completes.
InfoLoad(t) ==
    /\ Alive
    /\ cbpc[t] = "loading"
    /\ camera_model' = CameraInfo(t)
    /\ loads' = loads + 1
    /\ cbpc' = [cbpc EXCEPT ![t] = "loaded"]
    /\ UNCHANGED <<cameraInfoSet, selfVars, cfgVars, pc, loc, tfGood,
                   ghostVars>>

\* Line 86: self.cameraInfoSet = True, and the callback returns.
InfoSetFlag(t) ==
    /\ Alive
    /\ cbpc[t] = "loaded"
    /\ cameraInfoSet' = TRUE
    /\ cbpc' = [cbpc EXCEPT ![t] = "idle"]
    /\ UNCHANGED <<camera_model, loads, selfVars, cfgVars, pc, loc, tfGood,
                   ghostVars>>

\* ---------------------------------------------------------- environment

\* tf2 starts or stops answering every call with usable geometry.
TfChange ==
    /\ Alive
    /\ tfGood' = ~tfGood
    /\ UNCHANGED <<cbVars, selfVars, cfgVars, pc, loc, ghostVars>>

\* What Buffer.transform may answer for the left and right bottom ray points.
LbcChoices(zero) ==
    IF tfGood THEN {p \in RayPoints : p[3] # zero[3]} ELSE RayPoints

RbcChoices(zero, lbc) ==
    LET good == {p \in RayPoints : NonDegenerate(zero, lbc, p)}
    IN  IF tfGood /\ good # {} THEN good ELSE RayPoints

\* ------------------------------------------------------------ poll loop

\* The loop's if without its matrixSet test.
LoopGuardNoDoneCheck == cameraInfoSet

\* Line 67.
LoopGuard == cameraInfoSet /\ ~matrixSet

Saturate(n) == IF n < MaxFailures THEN n + 1 ELSE n

\* Lines 66-67: one evaluation of the loop condition and of the if.
\* rospy.is_shutdown() is the environment's answer; once it is true the loop
\* ends and it is not asked again.  When the if is false the body is empty and
\* the next iteration starts at once.
LoopHead ==
    /\ pc = "head"
    /\ \/ /\ pc' = "exit"
          /\ UNCHANGED <<lastIter, attempts>>
       \/ /\ LoopGuard
          /\ pc' = "try"
          /\ attempts' = 0
          /\ UNCHANGED lastIter
       \/ /\ ~LoopGuard
          /\ pc' = "head"
          /\ lastIter' = "noSleep"
          /\ attempts' = 0
    /\ UNCHANGED <<cbVars, selfVars, cfgVars, loc, tfGood, failures>>

\* Lines 69-70 and 128-141: can_transform answers True, set_transform_matrix is
\* entered and reads the image size from the camera model.
CanTransformTrue ==
    /\ pc = "try"
    /\ pc' = "t_zero"
    /\ attempts' = attempts + 1
    /\ loc' = [NoLocals EXCEPT !.w = camera_model.width, !.h = camera_model.height]
    /\ UNCHANGED <<cbVars, selfVars, cfgVars, tfGood, lastIter, failures>>

\* Line 69: can_transform answers False; the if body is skipped.
CanTransformFalse ==
    /\ pc = "try"
    /\ ~tfGood
    /\ pc' = "sleep"
    /\ UNCHANGED <<cbVars, selfVars, cfgVars, loc, tfGood, ghostVars>>

\* Lines 69-71, 120: a tf2 call raises Lookup-, Connectivity- or
\* ExtrapolationException; the frame of set_transform_matrix is unwound.
TransformRaise ==
    /\ pc \in {"try", "t_zero", "t_lbc", "t_rbc", "t_luc", "t_ruc"}
    /\ ~tfGood
    /\ pc' = "except"
    /\ loc' = NoLocals
    /\ UNCHANGED <<cbVars, selfVars, cfgVars, tfGood, ghostVars>>

\* Line 144.
TransformZero ==
    /\ pc = "t_zero"
    /\ \E p \in ZeroPoints : loc' = [loc EXCEPT !.zero = p]
    /\ pc' = "t_lbc"
    /\ UNCHANGED <<cbVars, selfVars, cfgVars, tfGood, ghostVars>>

\* Line 145.
TransformLbc ==
    /\ pc = "t_lbc"
    /\ \E p \in LbcChoices(loc.zero) : loc' = [loc EXCEPT !.lbc = p]
    /\ pc' = "t_rbc"
    /\ UNCHANGED <<cbVars, selfVars, cfgVars, tfGood, ghostVars>>

\* Line 146.
TransformRbc ==
    /\ pc = "t_rbc"
    /\ \E p \in RbcChoices(loc.zero, loc.lbc) : loc' = [loc EXCEPT !.rbc = p]
    /\ pc' = "upper"
    /\ UNCHANGED <<cbVars, selfVars, cfgVars, tfGood, ghostVars>>

\* Lines 150-160: getUpperPoints, the scale factors, and the indexing of point3
\* at the start of transformPoint (line 108).  An exception that is not tf2's is
\* caught nowhere: it leaves __init__ and ends the node.
GetUpperPoints ==
    /\ pc = "upper"
    /\ \E o \in getUpperPoints(loc.zero, loc.lbc, loc.rbc, distance_ahead) :
         IF o.kind = "raise"
           THEN /\ pc' = "crashed"
                /\ UNCHANGED <<loc, x_scale, y_scale>>
         ELSE IF o.kind = "lines"
           THEN /\ pc' = "crashed"
                /\ x_scale' = <<loc.w, lane_width>>
                /\ y_scale' = <<loc.h, distance_ahead>>
                /\ UNCHANGED loc
           ELSE /\ pc' = "t_luc"
                /\ x_scale' = <<loc.w, lane_width>>
                /\ y_scale' = <<loc.h, distance_ahead>>
                /\ loc' = [loc EXCEPT !.point3 = o.point3, !.point4 = o.point4,
                                      !.xs2 = o.xs2]
    /\ UNCHANGED <<cbVars, matrixSet, transformMatrix, inverseMatrix, published,
                   cfgVars, tfGood, ghostVars>>

\* Line 160.
TransformLuc ==
    /\ pc = "t_luc"
    /\ \E p \in LeftCameraPoints : loc' = [loc EXCEPT !.luc_point = p]
    /\ pc' = "t_ruc"
    /\ UNCHANGED <<cbVars, selfVars, cfgVars, tfGood, ghostVars>>

\* Line 161.
TransformRuc ==
    /\ pc = "t_ruc"
    /\ \E p \in RightCameraPoints : loc' = [loc EXCEPT !.ruc_point = p]
    /\ pc' = "build"
    /\ UNCHANGED <<cbVars, selfVars, cfgVars, tfGood, ghostVars>>

\* The end of set_transform_matrix without line 186.
BuildAndPublishNoFlag ==
    /\ pc = "build"
    /\ LET luc == project3dToPixel(camera_model, loc.luc_point)
           ruc == project3dToPixel(camera_model, loc.ruc_point)
           src == <<luc, ruc, <<loc.w, loc.h, 1>>, <<0, loc.h, 1>>>>
           l_w == DstColumn(loc.w, -1, loc.xs2, lane_width)
           r_w == DstColumn(loc.w, 1, loc.xs2, lane_width)
           dst == <<<<l_w, 0>>, <<r_w, 0>>, <<r_w, loc.h>>, <<l_w, loc.h>>>>
           fwd == get_transform_matrix(src, dst)
           inv == get_transform_matrix(dst, src)
       IN  /\ transformMatrix' = fwd
           /\ inverseMatrix' = inv
           /\ published' = Append(published, [warp_matrix |-> fwd, inverse_matrix |-> inv])
    /\ pc' = "sleep"
    /\ loc' = NoLocals
    /\ failures' = 0
    /\ UNCHANGED <<cbVars, matrixSet, x_scale, y_scale, cfgVars, tfGood,
                   lastIter, attempts>>

\* Lines 164-187: the source and destination corners, the two solves, the
\* publication and the flag; line 177 is true of two non-empty lists.
BuildAndPublish ==
    /\ pc = "build"
    /\ LET luc == project3dToPixel(camera_model, loc.luc_point)
           ruc == project3dToPixel(camera_model, loc.ruc_point)
           src == <<luc, ruc, <<loc.w, loc.h, 1>>, <<0, loc.h, 1>>>>
           l_w == DstColumn(loc.w, -1, loc.xs2, lane_width)
           r_w == DstColumn(loc.w, 1, loc.xs2, lane_width)
           dst == <<<<l_w, 0>>, <<r_w, 0>>, <<r_w, loc.h>>, <<l_w, loc.h>>>>
           fwd == get_transform_matrix(src, dst)
           inv == get_transform_matrix(dst, src)
       IN  /\ transformMatrix' = fwd
           /\ inverseMatrix' = inv
           /\ published' = Append(published, [warp_matrix |-> fwd, inverse_matrix |-> inv])
    /\ matrixSet' = TRUE
    /\ pc' = "sleep"
    /\ loc' = NoLocals
    /\ failures' = 0
    /\ UNCHANGED <<cbVars, x_scale, y_scale, cfgVars, tfGood, lastIter,
                   attempts>>

\* A handler that leaves the loop instead of continuing it.
ExceptGiveUp ==
    /\ pc = "except"
    /\ pc' = "exit"
    /\ lastIter' = "slept"
    /\ failures' = Saturate(failures)
    /\ UNCHANGED <<cbVars, selfVars, cfgVars, loc, tfGood, attempts>>

\* Lines 71-73: the handler sleeps one period and continues with the loop.
ExceptSleep ==
    /\ pc = "except"
    /\ pc' = "head"
    /\ lastIter' = "slept"
    /\ failures' = Saturate(failures)
    /\ UNCHANGED <<cbVars, selfVars, cfgVars, loc, tfGood, attempts>>

\* Line 75: the sleep that ends the if body.
Sleep ==
    /\ pc = "sleep"
    /\ pc' = "head"
    /\ lastIter' = "slept"
    /\ UNCHANGED <<cbVars, selfVars, cfgVars, loc, tfGood, attempts, failures>>

Loop ==
    \/ LoopHead
    \/ CanTransformTrue
    \/ CanTransformFalse
    \/ TransformRaise
    \/ TransformZero
    \/ TransformLbc
    \/ TransformRbc
    \/ GetUpperPoints
    \/ TransformLuc
    \/ TransformRuc
    \/ BuildAndPublish
    \/ ExceptSleep
    \/ Sleep

Callbacks ==
    \/ \E t \in Threads : InfoCheck(t)
    \/ \E t \in Threads : InfoLoad(t)
    \/ \E t \in Threads : InfoSetFlag(t)

Next ==
    \/ Loop
    \/ Callbacks
    \/ TfChange

Spec == Init /\ [][Next]_vars

\* The control thread and every receive thread keep running while they have a
\* step to take.
FairSpec ==
    /\ Spec
    /\ WF_vars(Loop)
    /\ \A t \in Threads : WF_vars(InfoLoad(t)) /\ WF_vars(InfoSetFlag(t))

\* --------------------------------------------------------------- claims

\* The control thread is inside set_transform_matrix.
InPipeline == pc \in {"t_zero", "t_lbc", "t_rbc", "upper", "t_luc", "t_ruc", "build"}

\* A bottom-corner line has no vertical component: it is parallel to the plane
\* z = lbc.z.
Parallel(zero, lbc, rbc) == zero[3] = lbc[3] \/ zero[3] = rbc[3]

\* q lies on the line through the integer points a and b.
OnLine(q, a, b) ==
    LET u == <<q[1] - a[1] * q[4], q[2] - a[2] * q[4], q[3] - a[3] * q[4]>>
        v == <<b[1] - a[1], b[2] - a[2], b[3] - a[3]>>
    IN  /\ u[2] * v[3] = u[3] * v[2]
        /\ u[3] * v[1] = u[1] * v[3]
        /\ u[1] * v[2] = u[2] * v[1]

\* C1: the result message is published at most once, and whenever matrixSet is
\* true it has been published exactly once.
C1_PublishedOnce ==
    /\ Len(published) <= 1
    /\ matrixSet => Len(published) = 1

\* C1 witness: calibrated, published once, and the loop has gone round since.
C1_Witness == matrixSet /\ Len(published) = 1 /\ pc = "head" /\ lastIter = "noSleep"

\* C2: once matrixSet is true it stays true, no step enters set_transform_matrix
\* and no step changes transformMatrix, inverseMatrix or what was published.
C2_CalibratedIsTerminal ==
    [][matrixSet =>
         /\ matrixSet'
         /\ transformMatrix' = transformMatrix
         /\ inverseMatrix' = inverseMatrix
         /\ published' = published
         /\ pc' \in {"sleep", "head", "exit"}]_vars

\* C2 witness: calibrated, a later tick has run and a receive thread that passed
\* the guard has loaded its message afterwards.
C2_Witness == matrixSet /\ lastIter = "noSleep" /\ loads = NumCallbacks

\* C3: the camera model is loaded at most once in the whole execution.
C3_LoadedAtMostOnce == loads <= 1

\* C4: a tick ended by a tf2 exception leaves the controller waiting for the
\* transform with nothing published and nothing stored, the handler returns to
\* the loop head, and from the head the loop tries again unless the node is shut
\* down, however many ticks have failed before.
C4_RetryAfterTransformUnavailable ==
    /\ [](pc = "except" =>
            /\ cameraInfoSet /\ ~matrixSet
            /\ published = <<>>
            /\ transformMatrix = None /\ inverseMatrix = None)
    /\ [][pc = "except" => pc' \in {"except", "head"}]_vars
    /\ [][(pc = "head" /\ failures > 0 /\ ~matrixSet)
            => pc' \in {"head", "try", "exit"} /\ (pc' = "head" => UNCHANGED lastIter)]_vars

\* C4 witness: the pipeline is about to be attempted again after MaxFailures
\* failed ticks.
C4_Witness == pc = "try" /\ failures = MaxFailures /\ lastIter = "slept"

\* C5: when a bottom-corner line is parallel to the ground plane, getUpperPoints
\* does not return its points, the attempt ends in an error, no step stores or
\* publishes a matrix, and the controller is never calibrated afterwards.
C5_ParallelEndsInError ==
    /\ [][(pc = "upper" /\ Parallel(loc.zero, loc.lbc, loc.rbc) /\ pc' # pc) =>
            /\ pc' = "crashed"
            /\ \A o \in getUpperPoints(loc.zero, loc.lbc, loc.rbc, distance_ahead) :
                 o.kind # "points"
            /\ UNCHANGED <<matrixSet, transformMatrix, inverseMatrix, published>>]_vars
    /\ [](pc = "crashed" =>
            /\ ~matrixSet
            /\ published = <<>>
            /\ transformMatrix = None /\ inverseMatrix = None)
    /\ [][pc = "crashed" => pc' = "crashed"]_vars

\* C5 witness: an attempt on a parallel line has ended in the error.
C5_Witness == pc = "crashed" /\ Parallel(loc.zero, loc.lbc, loc.rbc)

\* C6: when the two near ground points coincide (x_scale = 0), the step that
\* ends the attempt neither publishes nor sets matrixSet.
C6_CoincidentRejected ==
    [][(pc = "build" /\ loc.xs2[1] = 0) =>
         /\ published' = published
         /\ matrixSet' = matrixSet
         /\ transformMatrix' = transformMatrix]_vars

\* C7: if a message is delivered, tf2 answers with usable geometry from some
\* point on and there is no shutdown, the controller is eventually calibrated
\* with the result published.
C7_EventuallyCalibrated ==
    (/\ <>(\E t \in Threads : cbpc[t] = "loading")
     /\ <>[]tfGood
     /\ [](pc # "exit"))
      => <>(matrixSet /\ Len(published) = 1)

\* C8: the flag is true only after a model load has completed, and the control
\* thread is inside set_transform_matrix only when the flag is true.
C8_PipelineAfterLoad ==
    /\ cameraInfoSet => (loads >= 1 /\ camera_model # None)
    /\ InPipeline => (cameraInfoSet /\ camera_model # None)

\* C8 witness: the pipeline has been entered while the other receive thread is
\* still inside its callback.
C8_Witness == pc = "t_zero" /\ cameraInfoSet /\ \E t \in Threads : cbpc[t] = "loading"

\* C9: every loop iteration sleeps one period before the next starts, and makes
\* at most one calibration attempt.
C9_SleepEveryIteration == lastIter # "noSleep" /\ attempts <= 1

\* C10: point3 is point1 moved by sign*D along x and point4 is point2 moved by
\* the same, point1 and point2 being the points of the two lines at elevation
\* lbc.z; sign is +1 exactly when lbc.y > 0; with -D the move is the opposite.
C10_UpperPointsTranslation ==
    pc = "t_luc" =>
      LET zero == loc.zero
          lbc == loc.lbc
          rbc == loc.rbc
          D == distance_ahead
          sign == IF lbc[2] > 0 THEN 1 ELSE -1
          point1 == Translate(loc.point3, -(sign * D))
          point2 == Translate(loc.point4, -(sign * D))
      IN  /\ OnLine(point1, zero, lbc) /\ point1[3] = lbc[3] * point1[4]
          /\ OnLine(point2, zero, rbc) /\ point2[3] = lbc[3] * point2[4]
          /\ \A o \in getUpperPoints(zero, lbc, rbc, -D) :
               /\ o.kind = "points"
               /\ SamePoint(o.point3, Translate(point1, -(sign * D)))
               /\ SamePoint(o.point4, Translate(point2, -(sign * D)))

\* C10 witness: getUpperPoints has returned for a left ray point with y = 0.
C10_Witness == pc = "t_luc" /\ loc.lbc[2] = 0 /\ ~SamePoint(loc.point3, loc.point4)

\* Supplement to C7: in the runs where no attempt ends in the uncaught error, the
\* controller is eventually calibrated.
EventuallyCalibratedUnlessCrashed ==
    (/\ <>(\E t \in Threads : cbpc[t] = "loading")
     /\ <>[]tfGood
     /\ [](pc # "exit")
     /\ [](pc # "crashed"))
      => <>(matrixSet /\ Len(published) = 1)
====
